---------------------------- MODULE Spec2Model ----------------------------
(***************************************************************************)
(* State-machine model of the image upload-and-annotate web application.   *)
(*                                                                         *)
(*   src/main.py  the revision with secret management, signed URLs, the    *)
(*                before-request service check and try/finally cleanup     *)
(*   src/app.py   the earlier revision that stages under files/ and keeps  *)
(*                the caption in a .txt object                             *)
(*                                                                         *)
(* Text is modelled as a sequence of tokens.  A token is a piece of text   *)
(* that none of the string operations of the code splits: the code fence   *)
(* (three backquotes, the token "FENCE"), the word "json", a newline, the   *)
(* JSON punctuation, the quote "q",                                        *)
(* the keys "kT" ("title":) and "kD" ("description":), and plain words.    *)
(* A filename is a sequence of tokens too: name pieces followed by an      *)
(* extension token that starts with a dot.                                 *)
(***************************************************************************)
EXTENDS Naturals, Sequences, FiniteSets, TLC

\* ------------------------------------------------------------------ bounds

\* Number of upload requests a behaviour accepts when they are handled one
\* after the other.
MaxUploads == 3

\* Number of upload requests a behaviour accepts when they are interleaved.
MaxConcurrentUploads == 2

\* ------------------------------------------------------- program constants

BadRequest == 400
NotFound == 404
ServerError == 500
ServiceUnavailable == 503
Found == 302
OK == 200

\* ------------------------------------------------------------ text helpers

Fence == "FENCE"
JsonWord == "json"
Newline == "\n"
Quote == "q"
KeyTitle == "kT"
KeyDescription == "kD"

\* str.replace(tok, "") for a one-token pattern.
RemoveToken(t, tok) == SelectSeq(t, LAMBDA x : x # tok)

\* str.replace(a + b, "") for the two-token pattern a b: one pass from the
\* left, matches do not overlap and the result is not scanned again.
RECURSIVE RemovePair(_, _, _)
RemovePair(t, a, b) ==
    IF Len(t) < 2 THEN t
    ELSE IF t[1] = a /\ t[2] = b THEN RemovePair(SubSeq(t, 3, Len(t)), a, b)
    ELSE <<t[1]>> \o RemovePair(Tail(t), a, b)

\* str.strip(): leading and trailing whitespace removed.
RECURSIVE Strip(_)
Strip(t) ==
    IF t = <<>> THEN t
    ELSE IF t[1] = Newline THEN Strip(Tail(t))
    ELSE IF t[Len(t)] = Newline THEN Strip(SubSeq(t, 1, Len(t) - 1))
    ELSE t

\* main.py: response.text.replace(FENCE + "json", "").replace(FENCE, "").strip()
StripFences(t) == Strip(RemoveToken(RemovePair(t, Fence, JsonWord), Fence))

\* app.py: response.replace("json", "").replace(FENCE, "").strip()
AppStripFences(t) == Strip(RemoveToken(RemoveToken(t, JsonWord), Fence))

\* ---------------------------------------------------------------- JSON

\* Result of json.loads: kind is "dict", "list" or "error" (JSONDecodeError).
JsonError == [kind |-> "error", has_title |-> FALSE, title |-> <<>>,
              has_description |-> FALSE, description |-> <<>>]
JsonList == [JsonError EXCEPT !.kind = "list"]
EmptyDict == [JsonError EXCEPT !.kind = "dict"]

Dict(title, description) ==
    [kind |-> "dict", has_title |-> TRUE, title |-> title,
     has_description |-> TRUE, description |-> description]

\* Index of the first quote of t at or after position i (0 when there is none).
ClosingQuote(t, i) ==
    LET qs == {j \in i..Len(t) : t[j] = Quote}
    IN  IF qs = {} THEN 0 ELSE CHOOSE j \in qs : \A k \in qs : j <= k

\* The members of an object: key string [, key string]*, added to acc.
RECURSIVE ParseMembers(_, _)
ParseMembers(m, acc) ==
    IF Len(m) < 3 \/ m[1] \notin {KeyTitle, KeyDescription} \/ m[2] # Quote
    THEN JsonError
    ELSE LET j == ClosingQuote(m, 3)
         IN  IF j = 0 THEN JsonError
             ELSE LET val == SubSeq(m, 3, j - 1)
                      acc2 == IF m[1] = KeyTitle
                              THEN [acc EXCEPT !.has_title = TRUE, !.title = val]
                              ELSE [acc EXCEPT !.has_description = TRUE,
                                               !.description = val]
                      rest == SubSeq(m, j + 1, Len(m))
                  IN  IF rest = <<>> THEN acc2
                      ELSE IF rest[1] = "," /\ Len(rest) > 1
                           THEN ParseMembers(Tail(rest), acc2)
                           ELSE JsonError

\* json.loads(text): surrounding whitespace is accepted.
JsonLoads(text) ==
    LET s == Strip(text)
    IN  IF s = <<"[", "]">> THEN JsonList
        ELSE IF Len(s) >= 2 /\ s[1] = "{" /\ s[Len(s)] = "}"
             THEN IF Len(s) = 2 THEN EmptyDict
                  ELSE ParseMembers(SubSeq(s, 2, Len(s) - 1), EmptyDict)
             ELSE JsonError

JsonString(s) == <<Quote>> \o s \o <<Quote>>

\* json.dump({"title": title, "description": description})
JsonDump(title, description) ==
    <<"{", KeyTitle>> \o JsonString(title) \o <<",", KeyDescription>>
        \o JsonString(description) \o <<"}">>

\* dict.get(key, default)
GetTitle(d, default) == IF d.has_title THEN d.title ELSE default
GetDescription(d, default) == IF d.has_description THEN d.description ELSE default

\* ------------------------------------------------------------ filenames

ExtensionTokens == {".jpg", ".jpeg", ".png", ".json", ".txt"}

\* os.path.splitext(name): <<root, ext>>.  A leading dot starts no extension.
Splitext(f) ==
    IF Len(f) >= 2 /\ f[Len(f)] \in ExtensionTokens
    THEN <<SubSeq(f, 1, Len(f) - 1), <<f[Len(f)]>>>>
    ELSE <<f, <<>>>>

\* A slip in the derivation of the metadata key: one key for every image.
JsonFilenameShared(f) == <<"metadata", ".json">>

\* os.path.splitext(file.filename)[0] + '.json'
JsonFilename(f) == Splitext(f)[1] \o <<".json">>

\* os.path.join('/tmp', name)
TmpPath(name) == <<"/tmp">> \o name

\* blob.name.endswith(('.jpg', '.jpeg'))
ListedExtensions == {".jpg", ".jpeg"}
IsListedImage(name) == name # <<>> /\ name[Len(name)] \in ListedExtensions

\* ------------------------------------------------- contents of files, blobs

Bytes(id) == [kind |-> "bytes", id |-> id, text |-> <<>>]
Text(t) == [kind |-> "text", id |-> 0, text |-> t]

EmptyMap == [x \in {} |-> x]
Put(m, k, v) == (k :> v) @@ m
Remove(m, k) == [x \in DOMAIN m \ {k} |-> m[x]]

\* ------------------------------------------------- inputs of the environment

Workers == {1, 2}

\* Client filenames: two that differ only in the extension, one .png, and the
\* empty name of a form submitted without a file.
Filenames == {<<"a", ".jpg">>, <<"a", ".jpeg">>, <<"cat", ".png">>, <<>>}

Title1 == <<"cat">>
Title2 == <<"code", Fence, "block">>
Description1 == <<"a", "cat">>

\* A reply wrapped in a json code fence.
Fenced(body) == <<Fence, JsonWord, Newline>> \o body \o <<Newline, Fence>>

\* The texts the Captioning Service answers with.
CaptionTexts ==
    { JsonDump(Title1, Description1),
      JsonDump(Title2, Description1),
      Fenced(JsonDump(Title1, Description1)),
      <<"{", KeyTitle>> \o JsonString(Title1) \o <<"}">>,
      <<"[", "]">>,
      <<"sorry">>,
      Fenced(<<"sorry">>) }

\* What one call of the Captioning Service does.
ServiceOutcomes ==
    {[kind |-> "upload_failed", text |-> <<>>], [kind |-> "chat_failed", text |-> <<>>]}
        \cup {[kind |-> "text", text |-> t] : t \in CaptionTexts}

\* ------------------------------------------------------------------- state

VARIABLES
    disk,       \* local file system: path -> content
    bucket,     \* Blob Store: object name -> content
    pc,         \* per worker: where its upload invocation stands
    req,        \* per worker: the request (hasFile, filename)
    loc,        \* per worker: the handler's locals
    obs,        \* per worker: what the invocation did (external calls, writes)
    status,     \* per worker: status of the response sent (0: none yet)
    nreq,       \* upload requests accepted so far
    lastView,   \* outcome of the latest request, when it was a view
    lastList    \* outcome of the latest request, when it was an index

vars == <<disk, bucket, pc, req, loc, obs, status, nreq, lastView, lastList>>

NoLocals == [temp_path |-> <<>>, json_path |-> <<>>, title |-> <<>>,
             description |-> <<>>, ret |-> 0]
NoObs == [calls |-> <<>>, svc |-> "none", text |-> <<>>, wrote |-> {},
          rejected |-> FALSE, staged |-> {}]
NoView == [filename |-> <<>>, status |-> 0, title |-> <<>>, description |-> <<>>]
NoList == [status |-> 0, images |-> {}]

Init ==
    /\ disk = EmptyMap
    /\ bucket = EmptyMap
    /\ pc = [w \in Workers |-> "idle"]
    /\ req = [w \in Workers |-> [hasFile |-> FALSE, filename |-> <<>>]]
    /\ loc = [w \in Workers |-> NoLocals]
    /\ obs = [w \in Workers |-> NoObs]
    /\ status = [w \in Workers |-> 0]
    /\ nreq = 0
    /\ lastView = NoView
    /\ lastList = NoList

Quiescent == \A w \in Workers : pc[w] \in {"idle", "done"}

Call(w, name) == [obs EXCEPT ![w].calls = Append(@, name)]

\* ------------------------------------------------------ main.py: upload

\* A POST /upload arrives at worker w.  With sequential set, requests are
\* handled one after the other by worker 1.
Begin(w, sequential) ==
    /\ pc[w] \in {"idle", "done"}
    /\ nreq < (IF sequential THEN MaxUploads ELSE MaxConcurrentUploads)
    /\ sequential => (w = 1 /\ Quiescent)
    /\ \E hasFile \in BOOLEAN, f \in Filenames :
        /\ ~hasFile => f = <<>>
        /\ req' = [req EXCEPT ![w] = [hasFile |-> hasFile, filename |-> f]]
    /\ pc' = [pc EXCEPT ![w] = "hook"]
    /\ loc' = [loc EXCEPT ![w] = NoLocals]
    /\ obs' = [obs EXCEPT ![w] = NoObs]
    /\ status' = [status EXCEPT ![w] = 0]
    /\ nreq' = nreq + 1
    /\ lastView' = NoView
    /\ lastList' = NoList
    /\ UNCHANGED <<disk, bucket>>

\* @app.before_request check_services: bucket(BUCKET_NAME).exists()
CheckServices(w) ==
    /\ pc[w] = "hook"
    /\ obs' = Call(w, "gcs.bucket_exists")
    /\ \E up \in BOOLEAN :
        IF up
        THEN pc' = [pc EXCEPT ![w] = "validate"] /\ UNCHANGED status
        ELSE /\ pc' = [pc EXCEPT ![w] = "done"]
             /\ status' = [status EXCEPT ![w] = ServiceUnavailable]
    /\ UNCHANGED <<disk, bucket, req, loc, nreq, lastView, lastList>>

\* A slip in the validation: the check of the empty filename left out.
ValidateMissingOnly(w) ==
    /\ pc[w] = "validate"
    /\ IF ~req[w].hasFile
       THEN /\ loc' = [loc EXCEPT ![w].ret = BadRequest]
            /\ pc' = [pc EXCEPT ![w] = "fin_tmp"]
       ELSE /\ pc' = [pc EXCEPT ![w] = "save"]
            /\ UNCHANGED loc
    /\ UNCHANGED <<disk, bucket, req, obs, status, nreq, lastView, lastList>>

\* 'image' not in request.files, file.filename == ''
Validate(w) ==
    /\ pc[w] = "validate"
    /\ IF ~req[w].hasFile \/ req[w].filename = <<>>
       THEN /\ loc' = [loc EXCEPT ![w].ret = BadRequest]
            /\ pc' = [pc EXCEPT ![w] = "fin_tmp"]
       ELSE /\ pc' = [pc EXCEPT ![w] = "save"]
            /\ UNCHANGED loc
    /\ UNCHANGED <<disk, bucket, req, obs, status, nreq, lastView, lastList>>

\* temp_path = os.path.join('/tmp', file.filename); file.save(temp_path)
Save(w) ==
    /\ pc[w] = "save"
    /\ LET path == TmpPath(req[w].filename)
       IN  /\ loc' = [loc EXCEPT ![w].temp_path = path]
           /\ disk' = Put(disk, path, Bytes(w))
           /\ obs' = [obs EXCEPT ![w].staged = @ \cup {path}]
    /\ pc' = [pc EXCEPT ![w] = "annotate"]
    /\ UNCHANGED <<bucket, req, status, nreq, lastView, lastList>>

UploadErrorReply == Dict(<<"Upload Error">>, <<"Failed to upload image to Gemini AI.">>)
InvalidResponseReply ==
    Dict(<<"Invalid Response">>, <<"Gemini AI returned an invalid response.">>)
ErrorReply == Dict(<<"Error">>, <<"An error occurred while processing the image.">>)

\* generative_ai(image_file) for the service outcome o; present tells whether
\* the staged file is there for genai.upload_file to read.
GenerativeAi(o, present) ==
    IF o.kind = "upload_failed" \/ ~present THEN UploadErrorReply
    ELSE IF o.kind = "chat_failed" THEN ErrorReply
    ELSE LET parsed == JsonLoads(StripFences(o.text))
         IN  IF parsed.kind = "error" THEN InvalidResponseReply ELSE parsed

NoTitle == <<"No title present">>
NoDescription == <<"No description present">>

\* ai_response = generative_ai(temp_path); title = ai_response.get(...)
Annotate(w) ==
    /\ pc[w] = "annotate"
    /\ \E o \in ServiceOutcomes :
        LET present == loc[w].temp_path \in DOMAIN disk
            uploaded == o.kind # "upload_failed" /\ present
            ai == GenerativeAi(o, present)
        IN  /\ obs' = [obs EXCEPT
                  ![w].calls = @ \o (IF uploaded
                                     THEN <<"gemini.upload_file", "gemini.send_message">>
                                     ELSE <<"gemini.upload_file">>),
                  ![w].svc = IF uploaded THEN o.kind ELSE "upload_failed",
                  ![w].text = IF uploaded THEN o.text ELSE <<>>]
            /\ IF ai.kind = "dict"
               THEN /\ loc' = [loc EXCEPT
                          ![w].title = GetTitle(ai, NoTitle),
                          ![w].description = GetDescription(ai, NoDescription)]
                    /\ pc' = [pc EXCEPT ![w] = "write_json"]
               ELSE \* .get on a list: AttributeError, caught by except Exception
                    /\ loc' = [loc EXCEPT ![w].ret = ServerError]
                    /\ pc' = [pc EXCEPT ![w] = "fin_tmp"]
    /\ UNCHANGED <<disk, bucket, req, status, nreq, lastView, lastList>>

\* json_path = os.path.join('/tmp', json_filename); json.dump(json_data, json_file)
WriteJson(w) ==
    /\ pc[w] = "write_json"
    /\ LET path == TmpPath(JsonFilename(req[w].filename))
       IN  /\ loc' = [loc EXCEPT ![w].json_path = path]
           /\ disk' = Put(disk, path, Text(JsonDump(loc[w].title, loc[w].description)))
           /\ obs' = [obs EXCEPT ![w].staged = @ \cup {path}]
    /\ pc' = [pc EXCEPT ![w] = "put_image"]
    /\ UNCHANGED <<bucket, req, status, nreq, lastView, lastList>>

\* upload_to_gcs(bucket_name, source_file, destination_blob_name) by worker w:
\* TRUE and the object written, or FALSE when the store rejects the write or
\* the source file is gone.
UploadToGcs(w, source_file, destination_blob_name, next) ==
    \E accepted \in BOOLEAN :
        IF accepted /\ source_file \in DOMAIN disk
        THEN /\ bucket' = Put(bucket, destination_blob_name, disk[source_file])
             /\ obs' = [obs EXCEPT ![w].calls = Append(@, "gcs.upload"),
                                   ![w].wrote = @ \cup {destination_blob_name}]
             /\ pc' = [pc EXCEPT ![w] = next]
             /\ UNCHANGED loc
        ELSE /\ obs' = [obs EXCEPT ![w].calls = Append(@, "gcs.upload"),
                                   ![w].rejected = TRUE]
             /\ loc' = [loc EXCEPT ![w].ret = ServerError]
             /\ pc' = [pc EXCEPT ![w] = "fin_tmp"]
             /\ UNCHANGED bucket

\* upload_to_gcs(BUCKET_NAME, temp_path, file.filename)
PutImage(w) ==
    /\ pc[w] = "put_image"
    /\ UploadToGcs(w, loc[w].temp_path, req[w].filename, "put_json")
    /\ UNCHANGED <<disk, req, status, nreq, lastView, lastList>>

\* upload_to_gcs(BUCKET_NAME, json_path, json_filename)
PutJson(w) ==
    /\ pc[w] = "put_json"
    /\ UploadToGcs(w, loc[w].json_path, JsonFilename(req[w].filename), "fin_tmp")
    /\ UNCHANGED <<disk, req, status, nreq, lastView, lastList>>

\* The response once the finally block is through: the value returned inside
\* try, else the redirect to view_image.
Response(w) == IF loc[w].ret = 0 THEN Found ELSE loc[w].ret

\* finally: if temp_path and os.path.exists(temp_path)
FinallyTempExists(w) ==
    /\ pc[w] = "fin_tmp"
    /\ pc' = [pc EXCEPT ![w] =
                 IF loc[w].temp_path # <<>> /\ loc[w].temp_path \in DOMAIN disk
                 THEN "rm_tmp" ELSE "fin_json"]
    /\ UNCHANGED <<disk, bucket, req, loc, obs, status, nreq, lastView, lastList>>

\* os.remove(path) in the finally block; a path that is gone raises
\* FileNotFoundError out of the handler.
OsRemove(w, path, next) ==
    IF path \in DOMAIN disk
    THEN /\ disk' = Remove(disk, path)
         /\ pc' = [pc EXCEPT ![w] = next]
         /\ status' = [status EXCEPT ![w] = IF next = "done" THEN Response(w) ELSE 0]
    ELSE /\ pc' = [pc EXCEPT ![w] = "done"]
         /\ status' = [status EXCEPT ![w] = ServerError]
         /\ UNCHANGED disk

\* os.remove(temp_path)
FinallyTempRemove(w) ==
    /\ pc[w] = "rm_tmp"
    /\ OsRemove(w, loc[w].temp_path, "fin_json")
    /\ UNCHANGED <<bucket, req, loc, obs, nreq, lastView, lastList>>

\* finally: if json_path and os.path.exists(json_path)
FinallyJsonExists(w) ==
    /\ pc[w] = "fin_json"
    /\ IF loc[w].json_path # <<>> /\ loc[w].json_path \in DOMAIN disk
       THEN pc' = [pc EXCEPT ![w] = "rm_json"] /\ UNCHANGED status
       ELSE /\ pc' = [pc EXCEPT ![w] = "done"]
            /\ status' = [status EXCEPT ![w] = Response(w)]
    /\ UNCHANGED <<disk, bucket, req, loc, obs, nreq, lastView, lastList>>

\* os.remove(json_path)
FinallyJsonRemove(w) ==
    /\ pc[w] = "rm_json"
    /\ OsRemove(w, loc[w].json_path, "done")
    /\ UNCHANGED <<bucket, req, loc, obs, nreq, lastView, lastList>>

Upload(w, sequential) ==
    \/ Begin(w, sequential)
    \/ CheckServices(w)
    \/ Validate(w)
    \/ Save(w)
    \/ Annotate(w)
    \/ WriteJson(w)
    \/ PutImage(w)
    \/ PutJson(w)
    \/ FinallyTempExists(w)
    \/ FinallyTempRemove(w)
    \/ FinallyJsonExists(w)
    \/ FinallyJsonRemove(w)

\* ------------------------------------------------- main.py: view and index

NoTitleAvailable == <<"No title available">>
NoDescriptionAvailable == <<"No description available">>

ViewReply(f, code, title, description) ==
    [filename |-> f, status |-> code, title |-> title, description |-> description]

\* generate_temporary_url(BUCKET_NAME, blob_name): TRUE when a URL comes back.
GenerateTemporaryUrl(b, blob_name, signs) == blob_name \in DOMAIN b /\ signs

\* view_image() for ?filename=f on the store b.
ViewImage(b, f, signs) ==
    IF f = <<>> THEN ViewReply(f, BadRequest, <<>>, <<>>)
    ELSE IF JsonFilename(f) \notin DOMAIN b THEN ViewReply(f, NotFound, <<>>, <<>>)
    ELSE LET blob == b[JsonFilename(f)]
             json_data == IF blob.kind = "text" THEN JsonLoads(blob.text) ELSE JsonError
         IN  IF json_data.kind # "dict" THEN ViewReply(f, ServerError, <<>>, <<>>)
             ELSE IF ~GenerateTemporaryUrl(b, f, signs)
                  THEN ViewReply(f, ServerError, <<>>, <<>>)
                  ELSE ViewReply(f, OK, GetTitle(json_data, NoTitleAvailable),
                                 GetDescription(json_data, NoDescriptionAvailable))

\* GET /view?filename=f, the before-request check included.
View ==
    /\ Quiescent
    /\ \E f \in Filenames, up \in BOOLEAN, signs \in BOOLEAN :
        lastView' = IF up THEN ViewImage(bucket, f, signs)
                    ELSE ViewReply(f, ServiceUnavailable, <<>>, <<>>)
    /\ lastList' = NoList
    /\ UNCHANGED <<disk, bucket, pc, req, loc, obs, status, nreq>>

\* list_uploaded_images(bucket_name); lists is FALSE when list_blobs raises.
ListUploadedImages(b, lists) ==
    IF lists THEN {name \in DOMAIN b : IsListedImage(name)} ELSE {}

\* GET /, the before-request check included.
Index ==
    /\ Quiescent
    /\ \E up \in BOOLEAN, lists \in BOOLEAN :
        lastList' = IF up THEN [status |-> OK, images |-> ListUploadedImages(bucket, lists)]
                    ELSE [status |-> ServiceUnavailable, images |-> {}]
    /\ lastView' = NoView
    /\ UNCHANGED <<disk, bucket, pc, req, loc, obs, status, nreq>>

\* Requests handled end to end, one after the other.
Next == (\E w \in Workers : Upload(w, TRUE)) \/ View \/ Index

Spec == Init /\ [][Next]_vars

\* One worker per request, the uploads interleaved.
NextConc == (\E w \in Workers : Upload(w, FALSE)) \/ View \/ Index

SpecConc == Init /\ [][NextConc]_vars

\* ------------------------------------------------------ app.py: upload

\* os.path.join('files', name)
FilesPath(name) == <<"files">> \o name

\* os.path.splitext(path)[0] + '.txt'
TxtName(path) == Splitext(path)[1] \o <<".txt">>

\* f"{title}\n{description}"
TxtContent(title, description) == title \o <<Newline>> \o description

AppReturn(code, o, staged, wrote) ==
    /\ pc' = [pc EXCEPT ![1] = "done"]
    /\ status' = [status EXCEPT ![1] = code]
    /\ obs' = [obs EXCEPT ![1] =
                  [NoObs EXCEPT !.svc = o.kind, !.text = o.text,
                                !.staged = staged, !.wrote = wrote]]

\* upload() of app.py, from the request to the response.  No exception is
\* caught outside the parse of the AI reply: any other one ends the request
\* with a 500 where it is raised.
AppUpload ==
    /\ nreq < MaxUploads
    /\ nreq' = nreq + 1
    /\ lastView' = NoView
    /\ lastList' = NoList
    /\ UNCHANGED loc
    /\ \E hasFile \in BOOLEAN, f \in Filenames, o \in ServiceOutcomes,
          imageStored \in BOOLEAN, textStored \in BOOLEAN :
        LET none == [kind |-> "none", text |-> <<>>]
            local_path == FilesPath(f)
            text_path == TxtName(local_path)
            disk1 == Put(disk, local_path, Bytes(1))
            parsed == JsonLoads(AppStripFences(o.text))
            title == GetTitle(parsed, NoTitle)
            description == GetDescription(parsed, NoDescription)
            disk2 == Put(disk1, text_path, Text(TxtContent(title, description)))
            bucket1 == Put(bucket, f, Bytes(1))
            bucket2 == Put(bucket1, TxtName(f), disk2[text_path])
        IN  /\ ~hasFile => f = <<>>
            /\ req' = [req EXCEPT ![1] = [hasFile |-> hasFile, filename |-> f]]
            /\ IF ~hasFile
               THEN \* request.files['image']: BadRequestKeyError
                    AppReturn(BadRequest, none, {}, {}) /\ UNCHANGED <<disk, bucket>>
               ELSE IF f = <<>>
               THEN \* file.save('files/'): IsADirectoryError
                    AppReturn(ServerError, none, {}, {}) /\ UNCHANGED <<disk, bucket>>
               ELSE IF o.kind # "text"
               THEN \* generative_ai raises
                    /\ AppReturn(ServerError, o, {local_path}, {})
                    /\ disk' = disk1 /\ UNCHANGED bucket
               ELSE IF parsed.kind # "dict"
               THEN \* except: return "Error processing AI response."
                    /\ AppReturn(OK, o, {local_path}, {})
                    /\ disk' = disk1 /\ UNCHANGED bucket
               ELSE IF ~imageStored
               THEN /\ AppReturn(ServerError, o, {local_path, text_path}, {})
                    /\ disk' = disk2 /\ UNCHANGED bucket
               ELSE IF ~textStored
               THEN /\ AppReturn(ServerError, o, {local_path, text_path}, {f})
                    /\ disk' = disk2 /\ bucket' = bucket1
               ELSE /\ AppReturn(Found, o, {local_path, text_path}, {f, TxtName(f)})
                    /\ disk' = disk2 /\ bucket' = bucket2

\* --------------------------------------------------- app.py: view and index

\* Position of the first newline of t (Len(t) + 1 when there is none).
FirstNewline(t) ==
    LET ns == {i \in 1..Len(t) : t[i] = Newline}
    IN  IF ns = {} THEN Len(t) + 1 ELSE CHOOSE i \in ns : \A k \in ns : i <= k

\* '\n'.join(lines) for the lines readlines() gave, each with its newline: a
\* newline that ends a line other than the last is followed by a second one.
RECURSIVE JoinLines(_)
JoinLines(t) ==
    IF Len(t) < 2 THEN t
    ELSE IF t[1] = Newline THEN <<Newline, Newline>> \o JoinLines(Tail(t))
    ELSE <<t[1]>> \o JoinLines(Tail(t))

NoTitleApp == <<"No title">>
NoDescriptionApp == <<"No description">>

\* view_file(filename) on the local directory d: always a page.
ViewFile(d, f) ==
    LET text_path == FilesPath(TxtName(f))
    IN  IF text_path \notin DOMAIN d
        THEN ViewReply(f, OK, NoTitleApp, NoDescriptionApp)
        ELSE LET t == d[text_path].text
                 n == FirstNewline(t)
             IN  ViewReply(f, OK,
                     IF t = <<>> THEN NoTitleApp ELSE Strip(SubSeq(t, 1, n - 1)),
                     IF n >= Len(t) THEN NoDescriptionApp
                     ELSE Strip(JoinLines(SubSeq(t, n + 1, Len(t)))))

\* GET /view/<filename>
AppView ==
    /\ \E f \in Filenames \ {<<>>} : lastView' = ViewFile(disk, f)
    /\ lastList' = NoList
    /\ UNCHANGED <<disk, bucket, pc, req, loc, obs, status, nreq>>

\* list_files(bucket_name)
ListFiles(b) == DOMAIN b

\* GET /; an error of list_blobs is not caught.
AppIndex ==
    /\ \E lists \in BOOLEAN :
        lastList' = IF lists THEN [status |-> OK, images |-> ListFiles(bucket)]
                    ELSE [status |-> ServerError, images |-> {}]
    /\ lastView' = NoView
    /\ UNCHANGED <<disk, bucket, pc, req, loc, obs, status, nreq>>

NextApp == AppUpload \/ AppView \/ AppIndex

SpecApp == Init /\ [][NextApp]_vars

\* ------------------------------------------------------------- properties

Returned(w) == pc[w] = "done"
Active(w) == pc[w] \notin {"idle", "done"}
ValidFile(w) == req[w].hasFile /\ req[w].filename # <<>>
CaptioningFailed(w) == obs[w].svc \in {"upload_failed", "chat_failed"}
ImageExtensions == {<<".jpg">>, <<".jpeg">>, <<".png">>}

\* The JSON body of a reply: the text inside a json code fence that wraps the
\* whole reply, else the reply itself.
Unwrap(text) ==
    IF /\ Len(text) >= 5
       /\ SubSeq(text, 1, 3) = <<Fence, JsonWord, Newline>>
       /\ SubSeq(text, Len(text) - 1, Len(text)) = <<Newline, Fence>>
    THEN SubSeq(text, 4, Len(text) - 2)
    ELSE text

\* What the Captioning Service returned, read as JSON.
ServiceJson(w) == JsonLoads(Unwrap(obs[w].text))

WellFormedCaption(w) ==
    /\ obs[w].svc = "text"
    /\ ServiceJson(w).kind = "dict"
    /\ ServiceJson(w).has_title
    /\ ServiceJson(w).has_description

\* C1 (as claimed): once the uploads have returned, the image object of the
\* uploaded filename is in the Blob Store if and only if its metadata object
\* (filename without extension + ".json") is.
PairingInvariant ==
    \A w \in Workers :
        (Quiescent /\ Returned(w) /\ ValidFile(w)) =>
            ((req[w].filename \in DOMAIN bucket)
                <=> (JsonFilename(req[w].filename) \in DOMAIN bucket))

\* C2 (as claimed): an upload whose Captioning Service call failed is answered
\* with an error, has written no object to the Blob Store and has left none of
\* its staging files on disk.
CaptioningFailureIsFatal ==
    \A w \in Workers :
        (Returned(w) /\ CaptioningFailed(w)) =>
            /\ status[w] >= BadRequest
            /\ obs[w].wrote = {}
            /\ obs[w].staged \cap DOMAIN disk = {}

\* C3 (as claimed): when the reply of the Captioning Service does not parse as
\* JSON after the code fences are stripped and the Blob Store takes the writes,
\* the upload is answered with the redirect, the image is stored and the stored
\* metadata is the sentinel pair.
UnparseableReplyStoresSentinel ==
    \A w \in Workers :
        ( /\ Returned(w)
          /\ obs[w].svc = "text"
          /\ JsonLoads(StripFences(obs[w].text)).kind = "error"
          /\ ~obs[w].rejected ) =>
            /\ status[w] = Found
            /\ req[w].filename \in DOMAIN bucket
            /\ JsonFilename(req[w].filename) \in DOMAIN bucket
            /\ bucket[JsonFilename(req[w].filename)] = Text(JsonDump(NoTitle, NoDescription))

\* C4 (as claimed, for every revision): once the uploads have returned, no
\* staging file is left on the local disk.
NoStagingFileRemains == Quiescent => DOMAIN disk = {}

\* C5 (as claimed): a request without a file, or with an empty filename, is
\* answered 400 with no external call made while it is processed and no staging
\* file created.
RejectedBeforeAnyExternalCall ==
    \A w \in Workers :
        (Returned(w) /\ ~ValidFile(w)) =>
            /\ status[w] = BadRequest
            /\ obs[w].calls = <<>>
            /\ obs[w].staged = {}

\* C5 (amended): while such a request is processed the only external call is
\* the bucket-existence check of the before-request hook; the handler makes no
\* Blob Store or Captioning Service call, writes no object and stages no file,
\* and the request is answered 400, or 503 when the hook's check raised.
RejectedBeforeHandlerCalls ==
    \A w \in Workers :
        (pc[w] # "idle" /\ ~ValidFile(w)) =>
            /\ obs[w].calls \in {<<>>, <<"gcs.bucket_exists">>}
            /\ obs[w].wrote = {}
            /\ obs[w].staged = {}
            /\ Returned(w) =>
                /\ status[w] \in {BadRequest, ServiceUnavailable}
                /\ obs[w].calls = <<"gcs.bucket_exists">>

\* C5 (witness): a request with an empty filename has been answered 400.
EmptyFilenameRejected ==
    \E w \in Workers :
        Returned(w) /\ req[w].hasFile /\ req[w].filename = <<>> /\ status[w] = BadRequest

\* C6 (as claimed): after a valid upload for which the Captioning Service
\* returned well-formed JSON and the Blob Store took both writes, the image
\* and the metadata objects exist and view_image shows exactly the title and
\* description the service returned.
ViewShowsServiceCaption ==
    \A w \in Workers :
        ( /\ Quiescent /\ Returned(w) /\ ValidFile(w)
          /\ WellFormedCaption(w)
          /\ ~obs[w].rejected ) =>
            /\ req[w].filename \in DOMAIN bucket
            /\ JsonFilename(req[w].filename) \in DOMAIN bucket
            /\ LET v == ViewImage(bucket, req[w].filename, TRUE)
               IN  /\ v.status = OK
                   /\ v.title = ServiceJson(w).title
                   /\ v.description = ServiceJson(w).description

\* C7 (as claimed): a view of a filename whose metadata object is not in
\* durable storage is answered 404.  The metadata object of app.py is the
\* .txt object, that of main.py the .json object.
ViewWithoutMetadataIsNotFound ==
    ( /\ lastView.status # 0
      /\ lastView.filename # <<>>
      /\ TxtName(lastView.filename) \notin DOMAIN bucket
      /\ JsonFilename(lastView.filename) \notin DOMAIN bucket ) =>
        lastView.status = NotFound

\* C8 (as claimed): after a successful upload under a filename with an image
\* extension, the Blob Store holds name.ext and name.json and the catalog
\* lists the filename.
CatalogListsUpload ==
    \A w \in Workers :
        ( /\ Quiescent /\ Returned(w) /\ status[w] = Found
          /\ Splitext(req[w].filename)[2] \in ImageExtensions ) =>
            /\ req[w].filename \in DOMAIN bucket
            /\ JsonFilename(req[w].filename) \in DOMAIN bucket
            /\ req[w].filename \in ListUploadedImages(bucket, TRUE)

\* C9 (as claimed): two upload invocations in flight at once never share a
\* staging path.
StagingPathsDistinct ==
    \A w1, w2 \in Workers :
        (w1 # w2 /\ Active(w1) /\ Active(w2)) =>
            obs[w1].staged \cap obs[w2].staged = {}

PreviouslyUploaded(m) ==
    m # <<>> /\ m \in DOMAIN bucket /\ JsonFilename(m) \in DOMAIN bucket

\* C10 (as claimed): no step of an upload under filename n changes what
\* view_image returns for another previously uploaded filename m.
UploadLeavesOtherViews ==
    [][\A w \in Workers, m \in Filenames :
          (Active(w) /\ PreviouslyUploaded(m) /\ m # req[w].filename) =>
              ViewImage(bucket', m, TRUE) = ViewImage(bucket, m, TRUE)]_vars

\* C10 (amended): no step of an upload under filename n changes what
\* view_image returns for a previously uploaded filename m whose name without
\* the extension differs from that of n.
UploadLeavesOtherBaseNames ==
    [][\A w \in Workers, m \in Filenames :
          ( /\ Active(w) /\ PreviouslyUploaded(m)
            /\ Splitext(m)[1] # Splitext(req[w].filename)[1] ) =>
              ViewImage(bucket', m, TRUE) = ViewImage(bucket, m, TRUE)]_vars

\* C10 (witness): an upload has succeeded while another filename with a
\* different base name was stored and viewable.
SecondImageUploaded ==
    \E w \in Workers, m \in Filenames :
        /\ Returned(w) /\ status[w] = Found
        /\ PreviouslyUploaded(m)
        /\ Splitext(m)[1] # Splitext(req[w].filename)[1]
        /\ ViewImage(bucket, m, TRUE).status = OK

\* ------------------------------------------------------ supporting lemmas

\* main.py alone leaves no staging file behind (C4 fails on app.py only).
MainLeavesNoStagingFile == Quiescent => DOMAIN disk = {}

\* view_image of main.py never answers a view of a filename without metadata
\* with a page: 404 from the handler, or 503 from the before-request check
\* (C7 fails on app.py only).
MainViewWithoutMetadataIsNoPage ==
    ( /\ lastView.status # 0
      /\ lastView.filename # <<>>
      /\ JsonFilename(lastView.filename) \notin DOMAIN bucket ) =>
        lastView.status \in {NotFound, ServiceUnavailable}

FenceFree(t) == \A i \in 1..Len(t) : t[i] # Fence

\* The round trip of C6 holds for every caption that holds no code fence
\* inside the JSON body.
ViewShowsFenceFreeCaption ==
    \A w \in Workers :
        ( /\ Quiescent /\ Returned(w) /\ ValidFile(w)
          /\ WellFormedCaption(w)
          /\ FenceFree(Unwrap(obs[w].text))
          /\ ~obs[w].rejected ) =>
            /\ req[w].filename \in DOMAIN bucket
            /\ JsonFilename(req[w].filename) \in DOMAIN bucket
            /\ LET v == ViewImage(bucket, req[w].filename, TRUE)
               IN  /\ v.status = OK
                   /\ v.title = ServiceJson(w).title
                   /\ v.description = ServiceJson(w).description

=============================================================================
